---- MODULE Spec2Model ----
(***************************************************************************)
(* Model of the inventory service of the FastAPI project:                  *)
(*   app/inventory_routes.py  (routes and pydantic request schemas)        *)
(*   app/api/inventory_api.py (the MongoDB operations behind the routes)   *)
(* The `products` collection is the only shared state.  Every request is   *)
(* served by its own worker: it is validated by the route's schema, then   *)
(* performs its MongoDB operations, each of which is atomic on a single    *)
(* document, and finally returns a response.                               *)
(***************************************************************************)
EXTENDS Integers, Sequences, FiniteSets, TLC

\* ---------------------------------------------------------------- bounds
NumClients == 2      \* concurrent callers of the general specification
MaxCalls == 2        \* requests each caller issues
NumOids == 2         \* ObjectIds the driver can generate
MaxQty == 2          \* largest quantity or amount a request carries

OIDS == 1..NumOids
QtyInputs == (-1)..MaxQty

\* ------------------------------------------------------------ identifiers
\* A product id travels as a string.  str(ObjectId) is a 24 digit hex string;
\* any other string (such as "missing") does not parse as an ObjectId.
ObjectIdStr(oid) == <<"hex", oid>>
MalformedId == <<"bad", 0>>
NoId == <<"none", 0>>
IdStrings == {ObjectIdStr(o) : o \in OIDS} \cup {MalformedId}

\* ObjectId(product_id) raises InvalidId exactly when the string is no hex id.
InvalidId(product_id) == product_id[1] # "hex"
\* _oid: the ObjectId a well formed string denotes.
_oid(product_id) == product_id[2]

\* ---------------------------------------------------------------- schemas
\* ProductCreate: name min_length 2, price > 0, quantity >= 0.
ProductCreateNoQuantityBound(payload) ==
    /\ Len(payload.name) >= 2
    /\ payload.price > 0

ProductCreate(payload) ==
    /\ Len(payload.name) >= 2
    /\ payload.price > 0
    /\ payload.quantity >= 0

\* QuantityPayload: quantity > 0.  Shared by set_inventory and buy_product.
QuantityPayloadUnchecked(quantity) == TRUE

QuantityPayload(quantity) == quantity > 0

\* ------------------------------------------------------------- collection
\* products_col is a set of documents; MongoDB keeps _id unique.
Ids(col) == {d._id : d \in col}

\* The driver gives an inserted document an ObjectId no document has.
NewObjectId(col) == OIDS \ Ids(col)

\* find_one({"_id": oid}): the matching documents (none or one).
find_one(col, oid) == {d \in col : d._id = oid}

\* serialize_product: "_id" becomes the string "id".
serialize_product(product) ==
    [id |-> ObjectIdStr(product._id), quantity |-> product.quantity]

\* update_one({"_id": oid}, {"$set": {"quantity": quantity}}): the documents
\* matched, and the collection afterwards.
UpdateFilterAll(d, oid) == TRUE

UpdateFilter(d, oid) == d._id = oid

update_one_matched(col, oid) == {d \in col : UpdateFilter(d, oid)}

\* update_one with upsert=True: a document is inserted when none matches.
update_one_upsert(col, oid, quantity) ==
    IF \E d \in col : UpdateFilter(d, oid)
       THEN {IF UpdateFilter(d, oid) THEN [d EXCEPT !.quantity = quantity] ELSE d :
                d \in col}
       ELSE col \cup {[_id |-> oid, name |-> "", price |-> 0, quantity |-> quantity]}

update_one(col, oid, quantity) ==
    {IF UpdateFilter(d, oid) THEN [d EXCEPT !.quantity = quantity] ELSE d : d \in col}

\* The filter of purchase_product: {"_id": oid, "quantity": {"$gte": quantity}}.
PurchaseFilterIdOnly(d, oid, quantity) == d._id = oid

PurchaseFilter(d, oid, quantity) == d._id = oid /\ d.quantity >= quantity

\* The update with the sign of the increment lost: {"$inc": {"quantity": quantity}}.
find_one_and_update_inc_plus(col, oid, quantity) ==
    {IF PurchaseFilter(d, oid, quantity)
        THEN [d EXCEPT !.quantity = d.quantity + quantity] ELSE d : d \in col}

\* find_one_and_update(filter, {"$inc": {"quantity": -quantity}}): the
\* collection afterwards, one atomic step of the store.
find_one_and_update(col, oid, quantity) ==
    {IF PurchaseFilter(d, oid, quantity)
        THEN [d EXCEPT !.quantity = d.quantity - quantity] ELSE d : d \in col}

\* return_document=True is ReturnDocument.AFTER: the documents returned.
ReturnedBefore(col, oid, quantity) ==
    {d \in col : PurchaseFilter(d, oid, quantity)}

Returned(col, oid, quantity) ==
    {[d EXCEPT !.quantity = d.quantity - quantity] :
        d \in {e \in col : PurchaseFilter(e, oid, quantity)}}

\* -------------------------------------------------------------- responses
NoResp == [status |-> 0, detail |-> "", id |-> NoId, quantity |-> 0]
ValidationError ==
    [status |-> 422, detail |-> "validation", id |-> NoId, quantity |-> 0]
InvalidProductId ==
    [status |-> 400, detail |-> "Invalid product ID", id |-> NoId, quantity |-> 0]
ProductNotFoundAs400 ==
    [status |-> 400, detail |-> "Product not found", id |-> NoId, quantity |-> 0]
ProductNotFound ==
    [status |-> 404, detail |-> "Product not found", id |-> NoId, quantity |-> 0]
PurchaseRefused ==
    [status |-> 400, detail |-> "Insufficient stock or product not found",
     id |-> NoId, quantity |-> 0]
ServerError ==
    [status |-> 500, detail |-> "Internal Server Error", id |-> NoId, quantity |-> 0]
Created(product) ==
    [status |-> 201, detail |-> "", id |-> product.id, quantity |-> product.quantity]
Product(product) ==
    [status |-> 200, detail |-> "", id |-> product.id, quantity |-> product.quantity]
InventoryUpdated(quantity) ==
    [status |-> 200, detail |-> "Inventory updated", id |-> NoId, quantity |-> quantity]
PurchaseSuccessful(product) ==
    [status |-> 200, detail |-> "Purchase successful", id |-> NoId,
     quantity |-> product.quantity]

Failed(r) == r.status >= 400

\* --------------------------------------------------------------- requests
NoReq == [op |-> "none", product_id |-> NoId, name |-> "", price |-> 0, quantity |-> 0]
CreateReq(name, price, quantity) ==
    [op |-> "create", product_id |-> NoId, name |-> name, price |-> price,
     quantity |-> quantity]
GetReq(id) == [op |-> "get", product_id |-> id, name |-> "", price |-> 0, quantity |-> 0]
SetReq(id, quantity) ==
    [op |-> "set", product_id |-> id, name |-> "", price |-> 0, quantity |-> quantity]
PurchaseReq(id, quantity) ==
    [op |-> "purchase", product_id |-> id, name |-> "", price |-> 0,
     quantity |-> quantity]

\* The requests a caller may send: well formed and malformed ids, stored and
\* unknown ones, and payloads on both sides of every schema bound.
Requests ==
    {CreateReq("tv", 1, q) : q \in QtyInputs}
    \cup {CreateReq("x", 1, 1), CreateReq("tv", 0, 1)}
    \cup {GetReq(id) : id \in IdStrings}
    \cup {SetReq(id, q) : id \in IdStrings, q \in QtyInputs}
    \cup {PurchaseReq(id, q) : id \in IdStrings, q \in QtyInputs}

\* ------------------------------------------------------------------ state
VARIABLES
    products_col,   \* the documents of db["products"]
    pc,             \* where each caller's request stands
    req,            \* the request each caller has in flight
    resp,           \* the response each caller has received
    local,          \* a handler's local: result.inserted_id
    calls,          \* requests each caller has issued
    DB,             \* main_pydantic: the in-memory dict of items
    NEXT_ID,        \* main_pydantic: the next item id
    threads,        \* main_pydantic: the worker threads and their locals
    freed           \* history: the item ids delete_item has freed

\* The state of the in-memory CRUD demo, which the inventory service never
\* touches.
crud_vars == <<DB, NEXT_ID, threads, freed>>

vars == <<products_col, pc, req, resp, local, calls, crud_vars>>

\* The CRUD demo as its module is loaded, with no request running.
NoItems ==
    /\ DB = [k \in {} |-> 0]
    /\ NEXT_ID = 1
    /\ threads = [t \in {} |-> 0]
    /\ freed = {}

Clients == DOMAIN pc

Document(oid, payload) ==
    [_id |-> oid, name |-> payload.name, price |-> payload.price,
     quantity |-> payload.quantity]

Idle(cs) ==
    /\ pc = [c \in cs |-> "idle"]
    /\ req = [c \in cs |-> NoReq]
    /\ resp = [c \in cs |-> NoResp]
    /\ local = [c \in cs |-> 0]
    /\ calls = [c \in cs |-> 0]

Init ==
    /\ products_col = {}
    /\ Idle(1..NumClients)
    /\ NoItems

\* ---------------------------------------------------------------- actions
\* A caller sends a request to one of the routes (its first, or the next one
\* once it has the response to the one before).
Send(c, r) ==
    /\ pc[c] \in {"idle", "done"}
    /\ calls[c] < MaxCalls
    /\ req' = [req EXCEPT ![c] = r]
    /\ resp' = [resp EXCEPT ![c] = NoResp]
    /\ pc' = [pc EXCEPT ![c] = "route"]
    /\ calls' = [calls EXCEPT ![c] = @ + 1]
    /\ UNCHANGED <<products_col, local, crud_vars>>

Request(c) == \E r \in Requests : Send(c, r)

Reply(c, r) ==
    /\ resp' = [resp EXCEPT ![c] = r]
    /\ pc' = [pc EXCEPT ![c] = "done"]

\* POST /products/ : the payload is validated as ProductCreate.
add_product(c) ==
    /\ pc[c] = "route"
    /\ req[c].op = "create"
    /\ IF ProductCreate(req[c])
          THEN /\ pc' = [pc EXCEPT ![c] = "insert"]
               /\ UNCHANGED resp
          ELSE Reply(c, ValidationError)
    /\ UNCHANGED <<products_col, req, local, calls, crud_vars>>

\* create_product: insert_one(payload).
create_product_insert(c) ==
    /\ pc[c] = "insert"
    /\ \E oid \in NewObjectId(products_col) :
          /\ products_col' = products_col \cup {Document(oid, req[c])}
          /\ local' = [local EXCEPT ![c] = oid]
    /\ pc' = [pc EXCEPT ![c] = "find"]
    /\ UNCHANGED <<req, resp, calls, crud_vars>>

\* create_product: find_one({"_id": result.inserted_id}) and serialize.
create_product_find(c) ==
    /\ pc[c] = "find"
    /\ LET found == find_one(products_col, local[c])
       IN IF found = {}
             THEN Reply(c, ServerError)
             ELSE \E product \in found : Reply(c, Created(serialize_product(product)))
    /\ local' = [local EXCEPT ![c] = 0]
    /\ UNCHANGED <<products_col, req, calls, crud_vars>>

\* A get that takes the document out of the collection as it reads it
\* (find_one_and_delete in place of find_one).
get_product_and_delete(c) ==
    /\ pc[c] = "route"
    /\ req[c].op = "get"
    /\ IF InvalidId(req[c].product_id)
          THEN /\ Reply(c, InvalidProductId)
               /\ UNCHANGED products_col
          ELSE LET found == find_one(products_col, _oid(req[c].product_id))
               IN /\ products_col' = products_col \ found
                  /\ IF found = {}
                        THEN Reply(c, ProductNotFound)
                        ELSE \E product \in found :
                               Reply(c, Product(serialize_product(product)))
    /\ UNCHANGED <<req, local, calls, crud_vars>>

\* GET /products/{product_id} : get_product.
get_product(c) ==
    /\ pc[c] = "route"
    /\ req[c].op = "get"
    /\ IF InvalidId(req[c].product_id)
          THEN Reply(c, InvalidProductId)
          ELSE LET found == find_one(products_col, _oid(req[c].product_id))
               IN IF found = {}
                     THEN Reply(c, ProductNotFound)
                     ELSE \E product \in found :
                            Reply(c, Product(serialize_product(product)))
    /\ UNCHANGED <<products_col, req, local, calls, crud_vars>>

\* PATCH /products/{product_id}/inventory : the body is a QuantityPayload.
set_inventory(c) ==
    /\ pc[c] = "route"
    /\ req[c].op = "set"
    /\ IF QuantityPayload(req[c].quantity)
          THEN /\ pc' = [pc EXCEPT ![c] = "update"]
               /\ UNCHANGED resp
          ELSE Reply(c, ValidationError)
    /\ UNCHANGED <<products_col, req, local, calls, crud_vars>>

\* update_inventory: update_one with $set, 404 when nothing matched.
update_inventory(c) ==
    /\ pc[c] = "update"
    /\ IF InvalidId(req[c].product_id)
          THEN /\ Reply(c, InvalidProductId)
               /\ UNCHANGED products_col
          ELSE LET oid == _oid(req[c].product_id)
               IN /\ products_col' = update_one(products_col, oid, req[c].quantity)
                  /\ IF update_one_matched(products_col, oid) = {}
                        THEN Reply(c, ProductNotFound)
                        ELSE Reply(c, InventoryUpdated(req[c].quantity))
    /\ UNCHANGED <<req, local, calls, crud_vars>>

\* POST /products/{product_id}/purchase : the body is a QuantityPayload.
buy_product(c) ==
    /\ pc[c] = "route"
    /\ req[c].op = "purchase"
    /\ IF QuantityPayload(req[c].quantity)
          THEN /\ pc' = [pc EXCEPT ![c] = "purchase"]
               /\ UNCHANGED resp
          ELSE Reply(c, ValidationError)
    /\ UNCHANGED <<products_col, req, local, calls, crud_vars>>

\* A purchase that reads the stock with find_one and then updates it with a
\* separate update_one $inc: the check and the update are two steps.
purchase_product_check_then_inc(c) ==
    \/ /\ pc[c] = "purchase"
       /\ IF InvalidId(req[c].product_id)
             THEN Reply(c, InvalidProductId)
             ELSE IF \E d \in products_col :
                        PurchaseFilter(d, _oid(req[c].product_id), req[c].quantity)
                     THEN /\ pc' = [pc EXCEPT ![c] = "purchase_inc"]
                          /\ UNCHANGED resp
                     ELSE Reply(c, PurchaseRefused)
       /\ UNCHANGED <<products_col, req, local, calls, crud_vars>>
    \/ /\ pc[c] = "purchase_inc"
       /\ LET oid == _oid(req[c].product_id)
              after == {IF d._id = oid
                           THEN [d EXCEPT !.quantity = d.quantity - req[c].quantity]
                           ELSE d : d \in products_col}
          IN /\ products_col' = after
             /\ \E p \in find_one(after, oid) : Reply(c, PurchaseSuccessful(p))
       /\ UNCHANGED <<req, local, calls, crud_vars>>

\* A purchase that, instead of failing, tries again until the stock covers
\* the amount.
purchase_product_retry(c) ==
    /\ pc[c] = "purchase"
    /\ IF InvalidId(req[c].product_id)
          THEN /\ Reply(c, InvalidProductId)
               /\ UNCHANGED products_col
          ELSE LET oid == _oid(req[c].product_id)
                   product == Returned(products_col, oid, req[c].quantity)
               IN /\ product # {}
                  /\ products_col' =
                        find_one_and_update(products_col, oid, req[c].quantity)
                  /\ \E p \in product : Reply(c, PurchaseSuccessful(p))
    /\ UNCHANGED <<req, local, calls, crud_vars>>

\* purchase_product: one find_one_and_update, 400 when it returns nothing.
purchase_product(c) ==
    /\ pc[c] = "purchase"
    /\ IF InvalidId(req[c].product_id)
          THEN /\ Reply(c, InvalidProductId)
               /\ UNCHANGED products_col
          ELSE LET oid == _oid(req[c].product_id)
                   product == Returned(products_col, oid, req[c].quantity)
               IN /\ products_col' =
                        find_one_and_update(products_col, oid, req[c].quantity)
                  /\ IF product = {}
                        THEN Reply(c, PurchaseRefused)
                        ELSE \E p \in product : Reply(c, PurchaseSuccessful(p))
    /\ UNCHANGED <<req, local, calls, crud_vars>>

Next ==
    \/ \E c \in Clients : Request(c)
    \/ \E c \in Clients : add_product(c)
    \/ \E c \in Clients : create_product_insert(c)
    \/ \E c \in Clients : create_product_find(c)
    \/ \E c \in Clients : get_product(c)
    \/ \E c \in Clients : set_inventory(c)
    \/ \E c \in Clients : update_inventory(c)
    \/ \E c \in Clients : buy_product(c)
    \/ \E c \in Clients : purchase_product(c)

Spec == Init /\ [][Next]_vars

\* The stored quantity of the product with ObjectId oid.
QuantityOf(col, oid) == (CHOOSE d \in col : d._id = oid).quantity
Exists(col, oid) == oid \in Ids(col)
\* The caller's request names an ObjectId that is in the collection.
Targets(c) ==
    /\ ~InvalidId(req[c].product_id)
    /\ Exists(products_col, _oid(req[c].product_id))
\* This step is the database step of caller c's request of kind op.
Completes(c, op, at) == req[c].op = op /\ pc[c] = at /\ pc'[c] = "done"

\* ------------------------------------------------------------------- C1
\* C1: in every reachable state the stored quantity of every product is
\* >= 0, and every successful GET /products/{id} returned a quantity >= 0.
NonNegativity ==
    /\ \A d \in products_col : d.quantity >= 0
    /\ \A c \in Clients :
          (req[c].op = "get" /\ resp[c].status = 200) => resp[c].quantity >= 0

\* A purchase was refused because the stock is below the amount asked for.
NonNegativityWitness ==
    \E c \in Clients :
        /\ req[c].op = "purchase" /\ pc[c] = "done" /\ resp[c] = PurchaseRefused
        /\ Targets(c)
        /\ QuantityOf(products_col, _oid(req[c].product_id)) < req[c].quantity
        /\ \E b \in Clients : req[b].op = "get" /\ resp[b].status = 200

\* ------------------------------------------------------------------- C3
\* What C3 asks of one step of caller c.
AtomicDecrementStep(c) ==
    (Completes(c, "purchase", "purchase") /\ Targets(c)) =>
        LET oid == _oid(req[c].product_id)
            q == QuantityOf(products_col, oid)
            a == req[c].quantity
        IN /\ a > 0
           /\ Exists(products_col', oid)
           /\ IF a <= q
                 THEN /\ resp'[c].status = 200
                      /\ resp'[c].detail = "Purchase successful"
                      /\ resp'[c].quantity = q - a
                      /\ QuantityOf(products_col', oid) = q - a
                 ELSE /\ resp'[c] = PurchaseRefused
                      /\ QuantityOf(products_col', oid) = q

\* C3: a purchase of amount a > 0 on an existing product with quantity q
\* succeeds, returns q - a and stores q - a when a <= q; when a > q it is
\* refused (400) and the stored quantity stays q.
AtomicDecrement == [][\A c \in Clients : AtomicDecrementStep(c)]_vars

\* A purchase of part of the stock has succeeded and reported what remains.
AtomicDecrementWitness ==
    \E c \in Clients :
        /\ req[c].op = "purchase" /\ pc[c] = "done"
        /\ resp[c].detail = "Purchase successful"
        /\ Targets(c)
        /\ resp[c].quantity = QuantityOf(products_col, _oid(req[c].product_id))
        /\ resp[c].quantity > 0

\* ------------------------------------------------------------------- C2
\* The oversell scenario: one product with InitQty in stock and
\* NumBuyers > InitQty callers, each purchasing one unit of it once.
InitQty == 3
ExtraBuyers == 2
NumBuyers == InitQty + ExtraBuyers
TheProduct == CHOOSE o \in OIDS : \A p \in OIDS : o <= p

InitOversell ==
    /\ products_col = {Document(TheProduct, CreateReq("tv", 1, InitQty))}
    /\ Idle(1..NumBuyers)
    /\ NoItems

BuyOne(c) == calls[c] = 0 /\ Send(c, PurchaseReq(ObjectIdStr(TheProduct), 1))

NextOversell ==
    \/ \E c \in Clients : BuyOne(c)
    \/ \E c \in Clients : buy_product(c)
    \/ \E c \in Clients : purchase_product(c)

SpecOversell == InitOversell /\ [][NextOversell]_vars

Succeeded == {c \in Clients : pc[c] = "done" /\ resp[c].status = 200}
Refused == {c \in Clients : pc[c] = "done" /\ resp[c] = PurchaseRefused}
AllDone == \A c \in Clients : pc[c] = "done"

\* C2: with q in stock and n > q concurrent purchases of one unit, never
\* more than q succeed, and once all have returned exactly q have succeeded,
\* exactly n - q were refused with 400, and the stored quantity is 0.
NoOversell ==
    /\ Cardinality(Succeeded) <= InitQty
    /\ AllDone =>
          /\ Cardinality(Succeeded) = InitQty
          /\ Cardinality(Refused) = NumBuyers - InitQty
          /\ QuantityOf(products_col, TheProduct) = 0

\* All buyers have returned, some served and some refused.
NoOversellWitness ==
    /\ AllDone
    /\ Cardinality(Clients) > InitQty
    /\ Succeeded # {}
    /\ Refused # {}

\* ------------------------------------------------------------------- C4
\* A request served alone, from validation to response: the collection it
\* leaves and the response it returns.
Serve(col, r) ==
    CASE r.op = "get" ->
           [col |-> col,
            resp |-> IF InvalidId(r.product_id) THEN InvalidProductId
                     ELSE IF find_one(col, _oid(r.product_id)) = {} THEN ProductNotFound
                     ELSE Product(serialize_product(
                              CHOOSE d \in find_one(col, _oid(r.product_id)) : TRUE))]
      [] r.op = "set" ->
           IF ~QuantityPayload(r.quantity) THEN [col |-> col, resp |-> ValidationError]
           ELSE IF InvalidId(r.product_id) THEN [col |-> col, resp |-> InvalidProductId]
           ELSE [col |-> update_one(col, _oid(r.product_id), r.quantity),
                 resp |-> IF update_one_matched(col, _oid(r.product_id)) = {}
                             THEN ProductNotFound
                             ELSE InventoryUpdated(r.quantity)]
      [] r.op = "purchase" ->
           IF ~QuantityPayload(r.quantity) THEN [col |-> col, resp |-> ValidationError]
           ELSE IF InvalidId(r.product_id) THEN [col |-> col, resp |-> InvalidProductId]
           ELSE [col |-> find_one_and_update(col, _oid(r.product_id), r.quantity),
                 resp |-> IF Returned(col, _oid(r.product_id), r.quantity) = {}
                             THEN PurchaseRefused
                             ELSE PurchaseSuccessful(
                                      CHOOSE d \in Returned(col, _oid(r.product_id),
                                                            r.quantity) : TRUE)]

\* The collection after serving the first n requests of an order one by one.
RECURSIVE After(_, _, _)
After(col, order, n) ==
    IF n = 0 THEN col ELSE Serve(After(col, order, n - 1), req[order[n]]).col

Orders(cs) ==
    {o \in [1..Cardinality(cs) -> cs] : \A c \in cs : \E i \in DOMAIN o : o[i] = c}

\* The callers' responses and the final collection are those of serving the
\* requests one by one in this order, starting from collection col.
SerialWitness(col, order) ==
    /\ \A i \in DOMAIN order :
          resp[order[i]] = Serve(After(col, order, i - 1), req[order[i]]).resp
    /\ products_col = After(col, order, Len(order))

\* The scenario: every caller has one get, set or purchase in flight on the
\* same product, which holds InitQty.
StartCol == {Document(TheProduct, CreateReq("tv", 1, InitQty))}

SameIdRequests ==
    {GetReq(ObjectIdStr(TheProduct))}
    \cup {SetReq(ObjectIdStr(TheProduct), q) : q \in QtyInputs}
    \cup {PurchaseReq(ObjectIdStr(TheProduct), q) : q \in QtyInputs}

NumConcurrent == 3

InitSameId ==
    /\ products_col = StartCol
    /\ pc = [c \in 1..NumConcurrent |-> "route"]
    /\ req \in [1..NumConcurrent -> SameIdRequests]
    /\ resp = [c \in 1..NumConcurrent |-> NoResp]
    /\ local = [c \in 1..NumConcurrent |-> 0]
    /\ calls = [c \in 1..NumConcurrent |-> 1]
    /\ NoItems

NextSameId ==
    \/ \E c \in Clients : get_product(c)
    \/ \E c \in Clients : set_inventory(c)
    \/ \E c \in Clients : update_inventory(c)
    \/ \E c \in Clients : buy_product(c)
    \/ \E c \in Clients : purchase_product(c)

SpecSameId == InitSameId /\ [][NextSameId]_vars

\* C4: once a set of concurrent get, set and purchase calls on one id have
\* all returned, their responses and the stored quantity are those of the
\* same calls served one after another in some order.
Linearizable ==
    AllDone => \E order \in Orders(Clients) : SerialWitness(StartCol, order)

\* Two purchases raced for stock that covers only one of them.
LinearizableWitness ==
    /\ AllDone
    /\ \E a, b \in Clients :
          /\ a # b
          /\ req[a].op = "purchase" /\ resp[a].status = 200
          /\ req[b].op = "purchase" /\ resp[b] = PurchaseRefused

\* ------------------------------------------------------------------- C5
\* The caller's request names a well formed ObjectId that is not stored.
Absent(c) ==
    /\ ~InvalidId(req[c].product_id)
    /\ ~Exists(products_col, _oid(req[c].product_id))

\* What C5 as claimed asks of one step of caller c.
UnknownIdIsNotFoundStep(c) ==
    /\ (Completes(c, "get", "route") /\ Absent(c)) => resp'[c].status = 404
    /\ (Completes(c, "purchase", "purchase") /\ Absent(c)) =>
          (resp'[c].status = 404 /\ resp'[c] # PurchaseRefused)

\* C5 as claimed: a get and a purchase on an id that does not exist both
\* fail with NotFound (404), a failure other than the one for short stock.
UnknownIdIsNotFound == [][\A c \in Clients : UnknownIdIsNotFoundStep(c)]_vars

\* What C5 amended asks of one step of caller c.
UnknownIdStep(c) ==
    /\ (Completes(c, "get", "route") /\ Absent(c)) =>
          (resp'[c].status = 404 /\ resp'[c].detail = "Product not found")
    /\ (Completes(c, "purchase", "purchase") /\ Absent(c)) =>
          /\ resp'[c].status = 400
          /\ resp'[c].detail = "Insufficient stock or product not found"
    /\ (/\ Completes(c, "purchase", "purchase")
        /\ Targets(c)
        /\ QuantityOf(products_col, _oid(req[c].product_id)) < req[c].quantity) =>
          /\ resp'[c].status = 400
          /\ resp'[c].detail = "Insufficient stock or product not found"
    /\ (/\ Completes(c, "get", "route") \/ Completes(c, "purchase", "purchase")
        /\ InvalidId(req[c].product_id)) =>
          (resp'[c].status = 400 /\ resp'[c].detail = "Invalid product ID")

\* C5 amended: a get on a well formed absent id fails with 404 "Product not
\* found"; a purchase on it fails with 400 "Insufficient stock or product
\* not found", the very response a purchase beyond the stock of an existing
\* product gets, and different from the 404 of get; a malformed id fails
\* with 400 "Invalid product ID" in both.
UnknownId == [][\A c \in Clients : UnknownIdStep(c)]_vars

\* Both a get and a purchase on a well formed id that is not stored have
\* returned their failures.
UnknownIdWitness ==
    \E a, b \in Clients :
        /\ req[a].op = "get" /\ pc[a] = "done" /\ resp[a].status = 404
        /\ req[b].op = "purchase" /\ pc[b] = "done" /\ resp[b] = PurchaseRefused
        /\ req[a].product_id = req[b].product_id
        /\ Absent(a)

\* ------------------------------------------------------------------- C6
\* Caller c takes a step of its request.
Steps(c) == pc'[c] # pc[c] /\ pc[c] \notin {"idle", "done"}

\* What C6 asks of one step of caller c.
UnchangedOnFailureStep(c) ==
    /\ (Steps(c) /\ pc'[c] = "done" /\ Failed(resp'[c])) =>
          (products_col' = products_col /\ pc[c] # "find")
    /\ (Steps(c) /\ products_col' # products_col) =>
          \/ pc'[c] = "done" /\ ~Failed(resp'[c])
          \/ pc[c] = "insert" /\ pc'[c] = "find"

\* C6: a call that fails (422, 400 or 404) leaves the collection as it was:
\* the step that returns a failure changes nothing, and the only earlier
\* step of a call that changes the collection is the insert of a create,
\* after which the create does not fail.
UnchangedOnFailure == [][\A c \in Clients : UnchangedOnFailureStep(c)]_vars

\* A set with a negative quantity on an existing product was rejected, and
\* so was a set on an id that is not stored.
UnchangedOnFailureWitness ==
    \E a, b \in Clients :
        /\ req[a].op = "set" /\ req[a].quantity < 0 /\ Targets(a)
        /\ pc[a] = "done" /\ resp[a] = ValidationError
        /\ req[b].op = "set" /\ Absent(b)
        /\ pc[b] = "done" /\ resp[b] = ProductNotFound

\* ------------------------------------------------------------------- C7
\* What C7 as claimed asks of one step of caller c.
SetQuantityOverwriteStep(c) ==
    (Steps(c) /\ req[c].op = "set" /\ req[c].quantity >= 0) =>
        /\ Targets(c) =>
              /\ pc'[c] = "done" => ~Failed(resp'[c])
              /\ pc'[c] = "done" =>
                    QuantityOf(products_col', _oid(req[c].product_id)) = req[c].quantity
        /\ Absent(c) => (pc'[c] = "done" => resp'[c].status = 404)

\* C7 as claimed: on an existing id every quantity >= 0, 0 included, is
\* accepted by set and stored as given; on an absent id set fails with 404.
SetQuantityOverwrite == [][\A c \in Clients : SetQuantityOverwriteStep(c)]_vars

\* ------------------------------------------------------------------- C8
\* What C8 asks of one step of caller c.
NonPositiveAmountStep(c) ==
    /\ (Steps(c) /\ req[c].op = "purchase" /\ req[c].quantity <= 0) =>
          /\ pc[c] = "route"
          /\ pc'[c] = "done"
          /\ resp'[c] = ValidationError
          /\ products_col' = products_col
    /\ (Steps(c) /\ req[c].op = "purchase") =>
          /\ Ids(products_col') = Ids(products_col)
          /\ \A oid \in Ids(products_col) :
                QuantityOf(products_col', oid) <= QuantityOf(products_col, oid)

\* C8: a purchase with an amount <= 0 is rejected with 422 by the route's
\* schema, before purchase_product runs and without touching the
\* collection; purchase_product only ever sees amounts > 0, and no step of
\* a purchase raises the quantity of any product.
NonPositiveAmount == [][\A c \in Clients : NonPositiveAmountStep(c)]_vars

\* A purchase of a negative amount of an existing product was rejected.
NonPositiveAmountWitness ==
    \E c \in Clients :
        /\ req[c].op = "purchase" /\ req[c].quantity < 0 /\ Targets(c)
        /\ pc[c] = "done" /\ resp[c] = ValidationError

\* ------------------------------------------------------------------- C9
\* What C9 asks of one step of caller c.
CreateStep(c) ==
    /\ (Steps(c) /\ pc[c] = "insert") =>
          /\ req[c].quantity >= 0
          /\ local'[c] \notin Ids(products_col)
          /\ Ids(products_col') = Ids(products_col) \cup {local'[c]}
          /\ QuantityOf(products_col', local'[c]) = req[c].quantity
          /\ \A d \in products_col : d \in products_col'
    /\ (Steps(c) /\ pc[c] = "find") =>
          /\ resp'[c].status = 201
          /\ resp'[c].id = ObjectIdStr(local[c])
    /\ (Completes(c, "get", "route") /\ Targets(c)) =>
          /\ resp'[c].id = req[c].product_id
          /\ resp'[c].quantity = QuantityOf(products_col, _oid(req[c].product_id))
    /\ (Steps(c) /\ req[c].op = "create" /\ req[c].quantity < 0) =>
          /\ pc[c] = "route"
          /\ resp'[c] = ValidationError
          /\ products_col' = products_col
    /\ (Steps(c) /\ pc[c] # "insert") => Ids(products_col') = Ids(products_col)
    /\ Cardinality(Ids(products_col')) = Cardinality(products_col')

\* C9: a create with quantity >= 0 inserts one document whose ObjectId no
\* stored document has (so none an earlier create returned) and whose
\* quantity is the one given; the id it returns is that ObjectId as a
\* string; a get returns the stored quantity; no step removes or renames a
\* stored id and ids stay unique; a create with quantity < 0 is rejected
\* with 422 and adds nothing.
CreateAllocates == [][\A c \in Clients : CreateStep(c)]_vars

\* Two creates have returned different ids.
CreateAllocatesWitness ==
    \E a, b \in Clients :
        /\ a # b
        /\ req[a].op = "create" /\ resp[a].status = 201
        /\ req[b].op = "create" /\ resp[b].status = 201
        /\ resp[a].id # resp[b].id
        /\ Cardinality(products_col) = 2

\* ------------------------------------------------------------------ C10
\* The step a caller with a request in flight takes next.
StepOf(c) ==
    \/ add_product(c)
    \/ create_product_find(c)
    \/ get_product(c)
    \/ set_inventory(c)
    \/ update_inventory(c)
    \/ buy_product(c)
    \/ purchase_product(c)

\* A get, set or purchase of caller c is in flight.
InFlight(c) ==
    pc[c] \in {"route", "update", "purchase"} /\ req[c].op \in {"get", "set", "purchase"}

\* What C10 asks of one step of caller c.
IsolationStep(c) ==
    /\ (Steps(c) /\ req[c].op \in {"get", "set", "purchase"}) =>
          /\ \A d \in products_col :
                (InvalidId(req[c].product_id) \/ d._id # _oid(req[c].product_id))
                    => d \in products_col'
          /\ Ids(products_col') = Ids(products_col)
    /\ \A b \in Clients : InFlight(b)' => (ENABLED StepOf(b))'

\* C10: a get, set or purchase in flight can always take its next step,
\* whatever the other callers are in the middle of; and the database step of
\* a set or a purchase leaves every document with another id as it was.
PerIdIsolation ==
    /\ \A c \in Clients : InFlight(c) => ENABLED StepOf(c)
    /\ [][\A c \in Clients : IsolationStep(c)]_vars

\* A set on one product has succeeded while a purchase on another product
\* is in the middle of its handler.
PerIdIsolationWitness ==
    \E a, b \in Clients :
        /\ req[a].op = "set" /\ pc[a] = "done" /\ resp[a].status = 200
        /\ req[b].op = "purchase" /\ pc[b] = "purchase"
        /\ Targets(a) /\ Targets(b)
        /\ req[a].product_id # req[b].product_id

\* ------------------------------------------------------------------ C11
\* What C11 asks of one step of caller c.
IdempotentReadStep(c) ==
    /\ (Steps(c) /\ req[c].op = "get") =>
          /\ products_col' = products_col
          /\ Targets(c) =>
                resp'[c].quantity = QuantityOf(products_col, _oid(req[c].product_id))
    /\ \A oid \in Ids(products_col) :
          (/\ Steps(c)
           /\ \/ oid \notin Ids(products_col')
              \/ QuantityOf(products_col', oid) # QuantityOf(products_col, oid)) =>
             /\ req[c].op \in {"set", "purchase"}
             /\ req[c].product_id = ObjectIdStr(oid)
             /\ pc'[c] = "done"
             /\ ~Failed(resp'[c])

\* C11: a get leaves the collection as it is and returns the stored
\* quantity, and the stored quantity of an id changes only in the step of a
\* successful set or purchase on that id; so two gets of an id with no such
\* step between them return the same quantity.
IdempotentRead == [][\A c \in Clients : IdempotentReadStep(c)]_vars

\* Two gets of the same stored product have returned the same quantity,
\* which is still the stored one.
IdempotentReadWitness ==
    \E a, b \in Clients :
        /\ a # b
        /\ req[a].op = "get" /\ req[b].op = "get"
        /\ req[a].product_id = req[b].product_id
        /\ resp[a].status = 200 /\ resp[b].status = 200
        /\ resp[a].quantity = resp[b].quantity
        /\ Targets(a)
        /\ resp[a].quantity = QuantityOf(products_col, _oid(req[a].product_id))

\* ------------------------------------------------------------------ C14
\* The scenario: every caller has one purchase in flight on the same
\* product, which holds InitQty; nobody sets its quantity.
PurchaseRequests == {PurchaseReq(ObjectIdStr(TheProduct), q) : q \in QtyInputs}

InitPurchases ==
    /\ products_col = StartCol
    /\ pc = [c \in 1..NumConcurrent |-> "route"]
    /\ req \in [1..NumConcurrent -> PurchaseRequests]
    /\ resp = [c \in 1..NumConcurrent |-> NoResp]
    /\ local = [c \in 1..NumConcurrent |-> 0]
    /\ calls = [c \in 1..NumConcurrent |-> 1]
    /\ NoItems

NextPurchases ==
    \/ \E c \in Clients : buy_product(c)
    \/ \E c \in Clients : purchase_product(c)

SpecPurchases == InitPurchases /\ [][NextPurchases]_vars

\* The amounts of the purchases of the callers in cs, added up.
RECURSIVE Amounts(_)
Amounts(cs) ==
    IF cs = {} THEN 0
    ELSE LET c == CHOOSE x \in cs : TRUE IN req[c].quantity + Amounts(cs \ {c})

\* The stock is what it was at the start less what was sold.
Conserved == QuantityOf(products_col, TheProduct) = InitQty - Amounts(Succeeded)

\* C14: with no set on the product, after any interleaving of purchases the
\* stored quantity is the initial one less the amounts of the purchases
\* that succeeded, and the remaining_quantity a successful purchase returns
\* is the stored quantity right after its own decrement.
StockConservation ==
    /\ Conserved
    /\ [][/\ Conserved'
          /\ \A c \in Clients :
                (Completes(c, "purchase", "purchase") /\ ~Failed(resp'[c])) =>
                    /\ resp'[c].quantity = QuantityOf(products_col', TheProduct)
                    /\ resp'[c].quantity =
                          QuantityOf(products_col, TheProduct) - req[c].quantity]_vars

\* All purchases have returned: at least two were served, one was refused,
\* and part of the stock is left.
StockConservationWitness ==
    /\ AllDone
    /\ Cardinality(Succeeded) >= 2
    /\ Refused # {}
    /\ QuantityOf(products_col, TheProduct) = InitQty - Amounts(Succeeded)
    /\ QuantityOf(products_col, TheProduct) < InitQty

\* ------------------------------------------------------------------ C12
\* The scenario: every caller has a request of any kind in flight; the
\* product holds InitQty.  The creates among them find an ObjectId each.
InitInFlight ==
    /\ products_col = StartCol
    /\ pc = [c \in 1..NumClients |-> "route"]
    /\ req \in [1..NumClients -> Requests]
    /\ Cardinality({c \in 1..NumClients : req[c].op = "create"})
          <= NumOids - Cardinality(StartCol)
    /\ resp = [c \in 1..NumClients |-> NoResp]
    /\ local = [c \in 1..NumClients |-> 0]
    /\ calls = [c \in 1..NumClients |-> 1]
    /\ NoItems

NextInFlight ==
    \/ \E c \in Clients : add_product(c)
    \/ \E c \in Clients : create_product_insert(c)
    \/ \E c \in Clients : create_product_find(c)
    \/ \E c \in Clients : get_product(c)
    \/ \E c \in Clients : set_inventory(c)
    \/ \E c \in Clients : update_inventory(c)
    \/ \E c \in Clients : buy_product(c)
    \/ \E c \in Clients : purchase_product(c)

\* Any step of caller c's handler.
HandlerStep(c) == StepOf(c) \/ create_product_insert(c)

\* Every worker that can run is eventually run.
SpecInFlight ==
    /\ InitInFlight
    /\ [][NextInFlight]_vars
    /\ \A c \in 1..NumClients : WF_vars(HandlerStep(c))

\* C12: under fair scheduling every call in flight eventually returns, with
\* a success or a failure status, whatever the other callers do.
EveryCallCompletes ==
    \A c \in 1..NumClients : <>(pc[c] = "done" /\ resp[c].status # 0)

\* A purchase was refused for lack of stock while another caller's purchase
\* of the same product was served: both have returned.
EveryCallCompletesWitness ==
    /\ AllDone
    /\ \E a, b \in Clients :
          /\ req[a].op = "purchase" /\ resp[a] = PurchaseRefused /\ Targets(a)
          /\ req[b].op = "purchase" /\ resp[b].status = 200

\* =========================================================================
\* The in-memory CRUD demo, app/main_pydantic.py: DB, NEXT_ID and the
\* handlers of /items.  A handler is a plain def, so it runs on a worker
\* thread; create_item reads and writes the globals in separate statements.
\* =========================================================================
MaxItems == 3        \* creates are sent while NEXT_ID <= MaxItems
NumThreads == 3      \* worker threads of the concurrent scenario

\* ItemCreate: name is a str of at least 1 character (str_min_length=1).
ItemCreate(item) == Len(item.name) >= 1

\* Path(..., ge=1)
PathGe1(item_id) == item_id >= 1

ItemInputs == {[name |-> "T-shirt", price |-> 1], [name |-> "Mug", price |-> 2],
               [name |-> "", price |-> 1]}
ItemIds == 0..(MaxItems + 1)
NoItem == [name |-> "", price |-> 0]
NoRecord == [id |-> 0, name |-> "", price |-> 0]

\* record = item.model_dump(); record["id"] = id
Record(item, id) == [id |-> id, name |-> item.name, price |-> item.price]

\* DB[k] = record
DictSet(db, k, record) ==
    [x \in DOMAIN db \cup {k} |-> IF x = k THEN record ELSE db[x]]

\* del DB[k]
DictDel(db, k) == [x \in DOMAIN db \ {k} |-> db[x]]

\* health_check: the statistics GET /health reports.
health_check == [total_items |-> Cardinality(DOMAIN DB), next_id |-> NEXT_ID - 1]

Thread(at, op, item_id, item, record, tmp, status) ==
    [pc |-> at, op |-> op, item_id |-> item_id, item |-> item, record |-> record,
     tmp |-> tmp, status |-> status]
IdleThread == Thread("idle", "none", 0, NoItem, NoRecord, 0, 0)

\* Thread t ends its handler with this status and response record.
Respond(t, status, record) ==
    threads' = [threads EXCEPT ![t] =
                   [@ EXCEPT !.pc = "done", !.status = status, !.record = record]]

inventory_vars == <<products_col, pc, req, resp, local, calls>>

\* A request reaches a free worker thread.
Dispatch(t, op, item_id, item) ==
    /\ threads[t].pc \in {"idle", "done"}
    /\ threads' = [threads EXCEPT ![t] = Thread(op, op, item_id, item, NoRecord, 0, 0)]
    /\ UNCHANGED <<DB, NEXT_ID, freed, inventory_vars>>

\* POST /items
PostItem(t) ==
    /\ NEXT_ID <= MaxItems
    /\ \E item \in ItemInputs : Dispatch(t, "create", 0, item)

\* GET, PUT and DELETE /items/{item_id}
GetItem(t) == \E id \in ItemIds : Dispatch(t, "get", id, NoItem)
PutItem(t) == \E id \in ItemIds, item \in ItemInputs : Dispatch(t, "update", id, item)
DeleteItem(t) == \E id \in ItemIds : Dispatch(t, "delete", id, NoItem)

\* create_item: the body is validated as ItemCreate, then
\* record = item.model_dump(); record["id"] = NEXT_ID
create_item_record(t) ==
    /\ threads[t].pc = "create"
    /\ IF ItemCreate(threads[t].item)
          THEN threads' = [threads EXCEPT ![t] =
                   [@ EXCEPT !.pc = "store", !.record = Record(threads[t].item, NEXT_ID)]]
          ELSE Respond(t, 422, NoRecord)
    /\ UNCHANGED <<DB, NEXT_ID, freed, inventory_vars>>

\* create_item: DB[NEXT_ID] = record
create_item_store(t) ==
    /\ threads[t].pc = "store"
    /\ DB' = DictSet(DB, NEXT_ID, threads[t].record)
    /\ threads' = [threads EXCEPT ![t] = [@ EXCEPT !.pc = "load"]]
    /\ UNCHANGED <<NEXT_ID, freed, inventory_vars>>

\* create_item: NEXT_ID += 1, the load and the add
create_item_load(t) ==
    /\ threads[t].pc = "load"
    /\ threads' = [threads EXCEPT ![t] = [@ EXCEPT !.pc = "incr", !.tmp = NEXT_ID + 1]]
    /\ UNCHANGED <<DB, NEXT_ID, freed, inventory_vars>>

\* create_item: NEXT_ID += 1, the store; return record
create_item_incr(t) ==
    /\ threads[t].pc = "incr"
    /\ NEXT_ID' = threads[t].tmp
    /\ Respond(t, 201, threads[t].record)
    /\ UNCHANGED <<DB, freed, inventory_vars>>

\* get_item
get_item(t) ==
    /\ threads[t].pc = "get"
    /\ IF ~PathGe1(threads[t].item_id) THEN Respond(t, 422, NoRecord)
       ELSE IF threads[t].item_id \notin DOMAIN DB THEN Respond(t, 404, NoRecord)
       ELSE Respond(t, 200, DB[threads[t].item_id])
    /\ UNCHANGED <<DB, NEXT_ID, freed, inventory_vars>>

\* An update that stores the record whether or not the id is in DB, as the
\* docstring of update_item describes it.
update_item_upsert(t) ==
    /\ threads[t].pc = "update"
    /\ LET id == threads[t].item_id
       IN IF ~PathGe1(id) \/ ~ItemCreate(threads[t].item)
             THEN Respond(t, 422, NoRecord) /\ UNCHANGED DB
             ELSE /\ DB' = DictSet(DB, id, Record(threads[t].item, id))
                  /\ Respond(t, 200, Record(threads[t].item, id))
    /\ UNCHANGED <<NEXT_ID, freed, inventory_vars>>

\* update_item
update_item(t) ==
    /\ threads[t].pc = "update"
    /\ LET id == threads[t].item_id
       IN IF ~PathGe1(id) \/ ~ItemCreate(threads[t].item)
             THEN Respond(t, 422, NoRecord) /\ UNCHANGED DB
             ELSE IF id \notin DOMAIN DB
                     THEN Respond(t, 404, NoRecord) /\ UNCHANGED DB
                     ELSE /\ DB' = DictSet(DB, id, Record(threads[t].item, id))
                          /\ Respond(t, 200, Record(threads[t].item, id))
    /\ UNCHANGED <<NEXT_ID, freed, inventory_vars>>

\* delete_item
delete_item(t) ==
    /\ threads[t].pc = "delete"
    /\ LET id == threads[t].item_id
       IN IF ~PathGe1(id)
             THEN Respond(t, 422, NoRecord) /\ UNCHANGED <<DB, freed>>
             ELSE IF id \notin DOMAIN DB
                     THEN Respond(t, 404, NoRecord) /\ UNCHANGED <<DB, freed>>
                     ELSE /\ DB' = DictDel(DB, id)
                          /\ freed' = freed \cup {id}
                          /\ Respond(t, 204, NoRecord)
    /\ UNCHANGED <<NEXT_ID, inventory_vars>>

\* The module as loaded, serving the given worker threads.
InitItems(ts) ==
    /\ DB = [k \in {} |-> NoRecord]
    /\ NEXT_ID = 1
    /\ threads = [t \in ts |-> IdleThread]
    /\ freed = {}
    /\ products_col = {}
    /\ Idle({})

\* Requests served one at a time: a single worker.
InitCrud == InitItems({1})

NextCrud ==
    \/ \E t \in DOMAIN threads : PostItem(t)
    \/ \E t \in DOMAIN threads : GetItem(t)
    \/ \E t \in DOMAIN threads : PutItem(t)
    \/ \E t \in DOMAIN threads : DeleteItem(t)
    \/ \E t \in DOMAIN threads : create_item_record(t)
    \/ \E t \in DOMAIN threads : create_item_store(t)
    \/ \E t \in DOMAIN threads : create_item_load(t)
    \/ \E t \in DOMAIN threads : create_item_incr(t)
    \/ \E t \in DOMAIN threads : get_item(t)
    \/ \E t \in DOMAIN threads : update_item(t)
    \/ \E t \in DOMAIN threads : delete_item(t)

SpecCrud == InitCrud /\ [][NextCrud]_vars

\* Thread t takes the step of its handler that starts at `at`.
Runs(t, at) == threads[t].pc = at /\ threads'[t].pc # at

\* ------------------------------------------------------------------ C13
\* What C13 asks of one step of thread t.
UpdateIsUpsertStep(t) ==
    (/\ Runs(t, "update")
     /\ PathGe1(threads[t].item_id)
     /\ ItemCreate(threads[t].item)) =>
        LET id == threads[t].item_id
        IN /\ threads'[t].status = 200
           /\ id \in DOMAIN DB'
           /\ DB'[id] = Record(threads[t].item, id)
           /\ threads'[t].record = Record(threads[t].item, id)

\* C13: PUT /items/{item_id} with a valid body stores the record under
\* item_id, creating it when item_id is not in DB (upsert) and replacing it,
\* with its id kept, when it is.
UpdateIsUpsert == [][\A t \in DOMAIN threads : UpdateIsUpsertStep(t)]_vars

\* ------------------------------------------------------------------ C16
\* No handler is in the middle of its statements.
Quiescent == \A t \in DOMAIN threads : threads[t].pc \in {"idle", "done"}

\* Between requests: every key of DB is an id already handed out and is the
\* id of its record; GET /health reports no more items than ids handed out.
KeysInRange ==
    Quiescent =>
        /\ \A k \in DOMAIN DB : 1 <= k /\ k < NEXT_ID /\ DB[k].id = k
        /\ health_check.total_items <= health_check.next_id
        /\ \A k \in freed : k < NEXT_ID

\* What C16 asks of one step of thread t.
IdsNotReusedStep(t) ==
    /\ Runs(t, "store") =>
          /\ threads[t].record.id \notin freed
          /\ threads[t].record.id \notin DOMAIN DB
          /\ threads[t].record.id \in DOMAIN DB'
    /\ (Runs(t, "incr") /\ threads'[t].status = 201) =>
          /\ threads'[t].record.id \notin freed
          /\ DB[threads'[t].record.id] = threads'[t].record
          /\ NEXT_ID' = threads'[t].record.id + 1

InitCreates == InitItems(1..NumThreads)

\* Each worker serves one POST /items.
PostItemOnce(t) == threads[t].pc = "idle" /\ PostItem(t)

NextCreates ==
    \/ \E t \in DOMAIN threads : PostItemOnce(t)
    \/ \E t \in DOMAIN threads : create_item_record(t)
    \/ \E t \in DOMAIN threads : create_item_store(t)
    \/ \E t \in DOMAIN threads : create_item_load(t)
    \/ \E t \in DOMAIN threads : create_item_incr(t)

SpecCreates == InitCreates /\ [][NextCreates]_vars

\* Thread t's create_item has returned its record with 201.
Returned201(t) == threads[t].pc = "done" /\ threads[t].status = 201

\* C15: concurrent create_item calls receive pairwise distinct ids and every
\* created record is still in DB under its id; no create overwrites
\* another's record.
DistinctIds ==
    /\ \A t, u \in DOMAIN threads :
          (t # u /\ Returned201(t) /\ Returned201(u)) =>
              threads[t].record.id # threads[u].record.id
    /\ \A t \in DOMAIN threads :
          Returned201(t) =>
              /\ threads[t].record.id \in DOMAIN DB
              /\ DB[threads[t].record.id] = threads[t].record

====
